---- MODULE Spec2Model ----
(***************************************************************************)
(* Model of sgc.py, a Streamlit page.  Streamlit executes the script from  *)
(* top to bottom once per user interaction; one such execution is a "run". *)
(* The widgets (text area, four checkboxes, button) are the inputs of a    *)
(* run, the results column is its output, and the two external libraries   *)
(* (pyspellchecker, TextBlob) answer nondeterministically or raise.        *)
(*                                                                         *)
(* A string is a sequence of one-character strings.                        *)
(***************************************************************************)
EXTENDS Integers, Sequences, FiniteSets, TLC

\* ---------------------------------------------------------------- bounds
\* Longest text the user types and longest text TextBlob answers.
MaxLen == 3

\* ------------------------------------------------------------- alphabet
\* [a-zA-Z], as far as the texts go.
Letters == {"a", "A", "b"}
Whitespace == {" "}
SentenceMarks == {".", "!", "?"}
\* The characters the user types: two letters and the blank.
Alphabet == {"a", "b"} \cup Whitespace

\* The characters of TextBlob's answers: a correction may replace a letter
\* and may change its case.
AnswerAlphabet == {"a", "A"} \cup Whitespace

\* \w of the re module: letters, digits and the underscore.
WordChars == Letters \cup {"0", "_"}

Texts == UNION {[1..k -> Alphabet] : k \in 0..MaxLen}
Answers == UNION {[1..k -> AnswerAlphabet] : k \in 0..MaxLen}

\* ------------------------------------------------- str methods and re
\* str.lower(), one character.
LowerChar(c) == IF c = "A" THEN "a" ELSE c

\* str.lower()
Lower(s) == [i \in 1..Len(s) |-> LowerChar(s[i])]

RECURSIVE SplitAcc(_, _, _, _)
SplitAcc(s, i, cur, acc) ==
  IF i > Len(s)
    THEN IF cur = <<>> THEN acc ELSE Append(acc, cur)
    ELSE IF s[i] \in Whitespace
      THEN SplitAcc(s, i + 1, <<>>, IF cur = <<>> THEN acc ELSE Append(acc, cur))
      ELSE SplitAcc(s, i + 1, Append(cur, s[i]), acc)

\* str.split() without argument: the maximal runs of non-whitespace.
Split(s) == SplitAcc(s, 1, <<>>, <<>>)

RECURSIVE LStrip(_)
LStrip(s) ==
  IF s # <<>> /\ Head(s) \in Whitespace THEN LStrip(Tail(s)) ELSE s

RECURSIVE RStrip(_)
RStrip(s) ==
  IF s # <<>> /\ s[Len(s)] \in Whitespace
    THEN RStrip(SubSeq(s, 1, Len(s) - 1))
    ELSE s

\* str.strip()
Strip(s) == RStrip(LStrip(s))

\* \b at the gap before position i (i in 1..Len(s)+1).
Boundary(s, i) ==
  LET before == i > 1 /\ s[i - 1] \in WordChars
      after == i <= Len(s) /\ s[i] \in WordChars
  IN before # after

RECURSIVE RunEnd(_, _)
\* First position after the run of letters that starts at i.
RunEnd(s, i) ==
  IF i <= Len(s) /\ s[i] \in Letters THEN RunEnd(s, i + 1) ELSE i

\* Where a match of \b[a-zA-Z]+\b starting at i ends (first position after
\* it), 0 when there is none: the greedy run, shortened until \b holds.
MatchEnd(s, i) ==
  LET ends == {j \in (i + 1)..RunEnd(s, i) : Boundary(s, j)}
  IN IF Boundary(s, i) /\ ends # {}
       THEN CHOOSE j \in ends : \A k \in ends : k <= j
       ELSE 0

RECURSIVE FindWordsFrom(_, _)
FindWordsFrom(s, i) ==
  IF i > Len(s) THEN <<>>
  ELSE LET j == MatchEnd(s, i)
       IN IF j = 0 THEN FindWordsFrom(s, i + 1)
          ELSE <<SubSeq(s, i, j - 1)>> \o FindWordsFrom(s, j)

\* re.findall(r'\b[a-zA-Z]+\b', s)
FindWords(s) == FindWordsFrom(s, 1)

RECURSIVE JoinFrom(_, _)
JoinFrom(l, i) ==
  IF i > Len(l) THEN <<>>
  ELSE IF i = Len(l) THEN l[i]
  ELSE l[i] \o <<",", " ">> \o JoinFrom(l, i + 1)

\* ', '.join(l)
Join(l) == JoinFrom(l, 1)

Range(f) == {f[i] : i \in DOMAIN f}

\* ------------------------------------------------------ text statistics
WordCountBySpaces(s) == Cardinality({i \in 1..Len(s) : s[i] \in Whitespace}) + 1

\* word_count
WordCount(s) == Len(Split(s))

\* char_count
CharCount(s) == Len(s)

\* sentence_count: the matches of [.!?]+ are the maximal runs of marks.
SentenceCount(s) ==
  Cardinality({i \in 1..Len(s) :
                 /\ s[i] \in SentenceMarks
                 /\ (i = 1 \/ s[i - 1] \notin SentenceMarks)})

\* ------------------------------------------------------ results column
\* One call of st.markdown / st.metric / st.error / st.success / st.warning /
\* st.subheader / st.write / st.text_area in the results column.
Item(kind, num, txt) == [kind |-> kind, num |-> num, txt |-> txt]

\* ------------------------------------------------- the spelling library
\* list(spell_checker.candidates(word)) answers one of these lists.
CandidateLists ==
  { <<>>,
    << <<"a">> >>,
    << <<"a">>, <<"A">>, <<"a", "a">>, <<"a", "A">> >> }

\* the 3 of [:3]
SuggestionLimit == 3

\* l[:n]
Take(l, n) == SubSeq(l, 1, IF Len(l) < n THEN Len(l) ELSE n)

\* The orders in which "for word in misspelled" may visit the set m.
Orders(m) ==
  {f \in [1..Cardinality(m) -> m] : \A i, j \in DOMAIN f : i # j => f[i] # f[j]}

\* What the spelling library does in one spelling step on the list words:
\*   at     where it raised: "load" (load_spell_checker), "unknown"
\*          (spell_checker.unknown), "candidates" (the call after the
\*          answered ones), or "none";
\*   order  the misspelled words in iteration order;
\*   cands  the answers of the candidates calls that returned.
SpellResponses(words) ==
  {[at |-> a, order |-> <<>>, cands |-> <<>>] : a \in {"load", "unknown"}}
  \cup
  UNION {
    UNION {
      {[at |-> IF k = Len(ord) THEN "none" ELSE "candidates",
        order |-> ord, cands |-> c] :
          c \in [1..k -> CandidateLists]} :
      k \in 0..Len(ord)} :
    ord \in UNION {Orders(m) : m \in SUBSET Range(words)}}

\* spelling_errors when the spelling step is over.
SpellingErrors(resp) ==
  [i \in 1..Len(resp.cands) |->
     [word |-> resp.order[i], type |-> "Spelling",
      suggestions |-> Take(resp.cands[i], SuggestionLimit)]]

\* The library calls of one spelling step, in order.
SpellCalls(resp) ==
  IF resp.at = "load" THEN <<>>
  ELSE <<"unknown">>
       \o [i \in 1..Len(resp.cands) |-> "candidates"]
       \o (IF resp.at = "candidates" THEN <<"candidates">> ELSE <<>>)

AfterSpellUncaught(resp) ==
  IF resp.at = "none" THEN "grammar" ELSE "done"

\* Where the script goes on after the spelling step: "except Exception"
\* handles whatever the try block raised, so always at the grammar step.
AfterSpell(resp) == "grammar"

\* What the except clause of the spelling step displays.
SpellErrorItems(resp) ==
  IF resp.at = "none" THEN <<>> ELSE <<Item("error_spelling", 0, <<>>)>>

\* -------------------------------------------------- the grammar library
\* What TextBlob does in one grammar step:
\*   at    where it raised: "construct" (TextBlob(user_text)), "correct"
\*         (blob.correct()), or "none";
\*   text  str(corrected_blob) when nothing raised.
GrammarResponses ==
  {[at |-> a, text |-> <<>>] : a \in {"construct", "correct"}}
  \cup {[at |-> "none", text |-> t] : t \in Answers}

RECURSIVE DiffFrom(_, _, _)
DiffFrom(o, c, i) ==
  IF i > Len(o) \/ i > Len(c) THEN <<>>
  ELSE (IF Lower(o[i]) # Lower(c[i])
          THEN <<[word |-> o[i], type |-> "Grammar", suggestions |-> <<c[i]>>]>>
          ELSE <<>>)
       \o DiffFrom(o, c, i + 1)

FindDifferencesNoLengthCheck(original_words, corrected_words) ==
  DiffFrom(original_words, corrected_words, 1)

\* "Find differences": grammar_errors from the two word lists.
FindDifferences(original_words, corrected_words) ==
  IF Len(original_words) = Len(corrected_words)
    THEN DiffFrom(original_words, corrected_words, 1)
    ELSE <<>>

\* grammar_errors when the grammar step is over (str(blob) is the text).
GrammarErrors(text, resp) ==
  IF resp.at = "none" THEN FindDifferences(Split(text), Split(resp.text))
  ELSE <<>>

CorrectedTextOnFailure(old, resp) == resp.text

\* corrected_text when the grammar step is over; old is its value before.
CorrectedText(old, resp) ==
  IF resp.at = "none" THEN resp.text ELSE old

GrammarCallsWithRetry(resp) ==
  IF resp.at = "construct" THEN <<>>
  ELSE IF resp.at = "correct" THEN <<"correct", "correct">>
  ELSE <<"correct">>

\* The library calls of one grammar step, in order.
GrammarCalls(resp) ==
  IF resp.at = "construct" THEN <<>> ELSE <<"correct">>

\* Where the script goes on after the grammar step.
AfterGrammar(resp) == "show"

\* What the except clause of the grammar step displays.
GrammarErrorItems(resp) ==
  IF resp.at = "none" THEN <<>> ELSE <<Item("error_grammar", 0, <<>>)>>

\* --------------------------------------------------------------- guards
\* o is the record of the four sidebar checkboxes.
Toggles == [check_spelling : BOOLEAN, check_grammar : BOOLEAN,
            show_suggestions : BOOLEAN, highlight_errors : BOOLEAN]

CheckRequestedTextOnly(text, button) == text # <<>>

\* if user_text and check_button
CheckRequested(text, button) == text # <<>> /\ button

SpellEnabledNoToggle(o, text) == Strip(text) # <<>>

\* if check_spelling and user_text.strip()
SpellEnabled(o, text) == o.check_spelling /\ Strip(text) # <<>>

\* if check_grammar and user_text.strip()
GrammarEnabled(o, text) == o.check_grammar /\ Strip(text) # <<>>

\* ------------------------------------------------------------- display
\* "Display statistics"
StatsItems(text) ==
  << Item("stats_open", 0, <<>>),
     Item("metric_words", WordCount(text), <<>>),
     Item("metric_chars", CharCount(text), <<>>),
     Item("metric_sentences", SentenceCount(text), <<>>),
     Item("stats_close", 0, <<>>) >>

RECURSIVE ErrorItemsFrom(_, _, _, _, _)
ErrorItemsFrom(errors, i, wordKind, suggKind, o) ==
  IF i > Len(errors) THEN <<>>
  ELSE << Item("error_box_open", 0, <<>>),
          Item(wordKind, 0, errors[i].word) >>
       \o (IF o.show_suggestions /\ errors[i].suggestions # <<>>
             THEN <<Item(suggKind, 0, Join(errors[i].suggestions))>>
             ELSE <<>>)
       \o <<Item("box_close", 0, <<>>)>>
       \o ErrorItemsFrom(errors, i + 1, wordKind, suggKind, o)

ErrorListHidden(errors, head, wordKind, suggKind, o) ==
  IF errors = <<>> \/ ~o.highlight_errors THEN <<>>
  ELSE <<Item(head, 0, <<>>)>> \o ErrorItemsFrom(errors, 1, wordKind, suggKind, o)

\* One of the two error lists: its subheader and one box per error.
ErrorList(errors, head, wordKind, suggKind, o) ==
  IF errors = <<>> THEN <<>>
  ELSE <<Item(head, 0, <<>>)>> \o ErrorItemsFrom(errors, 1, wordKind, suggKind, o)

\* The result summary and, under it, the error lists.
SummaryItems(se, ge, o) ==
  LET total_errors == Len(se) + Len(ge)
  IN IF total_errors = 0
       THEN <<Item("success", 0, <<>>)>>
       ELSE <<Item("warning", total_errors, <<>>)>>
            \o ErrorList(se, "subheader_spelling", "spelling_word", "suggestions", o)
            \o ErrorList(ge, "subheader_grammar", "grammar_original", "suggestion", o)

\* "Show corrected text"
CorrectionItems(ct, text) ==
  IF ct # text
    THEN << Item("subheader_correction", 0, <<>>),
            Item("suggestion_box_open", 0, <<>>),
            Item("corrected_write", 0, ct),
            Item("box_close", 0, <<>>),
            Item("corrected_area", 0, ct) >>
    ELSE <<>>

\* ---------------------------------------------------------------- state
VARIABLES
  user_text,         \* st.text_area
  check_spelling,    \* sidebar checkboxes
  check_grammar,
  show_suggestions,
  highlight_errors,
  check_button,      \* st.button: TRUE in the run its click triggers
  pc,                \* position of the run in the script
  spelling_errors,   \* script variables of the results block
  grammar_errors,
  corrected_text,
  word_count,
  char_count,
  sentence_count,
  display,           \* what the run has written to the results column
  calls,             \* the library calls of the run, in order
  spell_resp,        \* what the spelling library did in the run
  grammar_resp       \* what TextBlob did in the run

widgets == <<user_text, check_spelling, check_grammar, show_suggestions,
             highlight_errors, check_button>>
locals == <<spelling_errors, grammar_errors, corrected_text,
            word_count, char_count, sentence_count>>
vars == <<widgets, pc, locals, display, calls, spell_resp, grammar_resp>>

\* The four checkboxes of the current run.
opts ==
  [check_spelling |-> check_spelling, check_grammar |-> check_grammar,
   show_suggestions |-> show_suggestions, highlight_errors |-> highlight_errors]

\* A script variable that the run has not assigned yet: every run executes
\* the script in a fresh namespace.
Unbound == "unbound"

\* The library has not been called in the run.
NoSpell == [at |-> "skipped", order |-> <<>>, cands |-> <<>>]
NoGrammar == [at |-> "skipped", text |-> <<>>]

\* The first page load: empty text area, the checkboxes at value=True, the
\* button not clicked, so the script has run through without a results block.
Init ==
  /\ user_text = <<>>
  /\ check_spelling = TRUE
  /\ check_grammar = TRUE
  /\ show_suggestions = TRUE
  /\ highlight_errors = TRUE
  /\ check_button = FALSE
  /\ pc = "done"
  /\ spelling_errors = Unbound
  /\ grammar_errors = Unbound
  /\ corrected_text = Unbound
  /\ word_count = Unbound
  /\ char_count = Unbound
  /\ sentence_count = Unbound
  /\ display = <<>>
  /\ calls = <<>>
  /\ spell_resp = NoSpell
  /\ grammar_resp = NoGrammar

\* A user interaction (a widget edited, the button clicked): Streamlit drops
\* the page and the namespace of the finished run and schedules a new run.
Interact ==
  /\ pc = "done"
  /\ pc' = "rerun"
  /\ spelling_errors' = Unbound
  /\ grammar_errors' = Unbound
  /\ corrected_text' = Unbound
  /\ word_count' = Unbound
  /\ char_count' = Unbound
  /\ sentence_count' = Unbound
  /\ display' = <<>>
  /\ calls' = <<>>
  /\ spell_resp' = NoSpell
  /\ grammar_resp' = NoGrammar
  /\ UNCHANGED widgets

\* The new run executes the script down to the results column; the widget
\* calls return the values the user has set.  The run was triggered by an
\* edit of the text area: st.button returns False.
EditText ==
  /\ pc = "rerun"
  /\ \E t \in Texts : user_text' = t
  /\ check_button' = FALSE
  /\ pc' = "results"
  /\ UNCHANGED <<check_spelling, check_grammar, show_suggestions,
                 highlight_errors, locals, display, calls, spell_resp,
                 grammar_resp>>

\* The run was triggered by one of the sidebar checkboxes.
ToggleOption ==
  /\ pc = "rerun"
  /\ \E o \in Toggles :
       /\ Cardinality({f \in DOMAIN o : o[f] # opts[f]}) = 1
       /\ check_spelling' = o.check_spelling
       /\ check_grammar' = o.check_grammar
       /\ show_suggestions' = o.show_suggestions
       /\ highlight_errors' = o.highlight_errors
  /\ check_button' = FALSE
  /\ pc' = "results"
  /\ UNCHANGED <<user_text, locals, display, calls, spell_resp, grammar_resp>>

\* The run was triggered by a click on "Check Text": st.button returns True.
\* An edit of the text area that was not yet sent goes with the click.
ClickButton ==
  /\ pc = "rerun"
  /\ \E t \in Texts : user_text' = t
  /\ check_button' = TRUE
  /\ pc' = "results"
  /\ UNCHANGED <<check_spelling, check_grammar, show_suggestions,
                 highlight_errors, locals, display, calls, spell_resp,
                 grammar_resp>>

\* "if user_text and check_button" is false: the results block is skipped.
NoCheck ==
  /\ pc = "results"
  /\ ~CheckRequested(user_text, check_button)
  /\ pc' = "done"
  /\ UNCHANGED <<widgets, locals, display, calls, spell_resp, grammar_resp>>

InitialCorrectedEmpty(text) == <<>>

\* corrected_text = user_text
InitialCorrected(text) == text

\* "Initialize results", "Text statistics", "Display statistics".
InitResults ==
  /\ pc = "results"
  /\ CheckRequested(user_text, check_button)
  /\ spelling_errors' = <<>>
  /\ grammar_errors' = <<>>
  /\ corrected_text' = InitialCorrected(user_text)
  /\ word_count' = WordCount(user_text)
  /\ char_count' = CharCount(user_text)
  /\ sentence_count' = SentenceCount(user_text)
  /\ display' = display \o StatsItems(user_text)
  /\ pc' = "spell"
  /\ UNCHANGED <<widgets, calls, spell_resp, grammar_resp>>

\* "if check_spelling and user_text.strip()" is false.
SpellSkip ==
  /\ pc = "spell"
  /\ ~SpellEnabled(opts, user_text)
  /\ pc' = "grammar"
  /\ UNCHANGED <<widgets, locals, display, calls, spell_resp, grammar_resp>>

\* "Spell checking": the try block and its except clause.
SpellCheck ==
  /\ pc = "spell"
  /\ SpellEnabled(opts, user_text)
  /\ \E resp \in SpellResponses(FindWords(Lower(user_text))) :
       /\ spell_resp' = resp
       /\ spelling_errors' = spelling_errors \o SpellingErrors(resp)
       /\ calls' = calls \o SpellCalls(resp)
       /\ display' = display \o SpellErrorItems(resp)
       /\ pc' = AfterSpell(resp)
  /\ UNCHANGED <<widgets, grammar_errors, corrected_text, word_count,
                 char_count, sentence_count, grammar_resp>>

\* "if check_grammar and user_text.strip()" is false.
GrammarSkip ==
  /\ pc = "grammar"
  /\ ~GrammarEnabled(opts, user_text)
  /\ pc' = "show"
  /\ UNCHANGED <<widgets, locals, display, calls, spell_resp, grammar_resp>>

\* "Grammar checking": the try block and its except clause.
GrammarCheck ==
  /\ pc = "grammar"
  /\ GrammarEnabled(opts, user_text)
  /\ \E resp \in GrammarResponses :
       /\ grammar_resp' = resp
       /\ grammar_errors' = grammar_errors \o GrammarErrors(user_text, resp)
       /\ corrected_text' = CorrectedText(corrected_text, resp)
       /\ calls' = calls \o GrammarCalls(resp)
       /\ display' = display \o GrammarErrorItems(resp)
       /\ pc' = AfterGrammar(resp)
  /\ UNCHANGED <<widgets, spelling_errors, word_count, char_count,
                 sentence_count, spell_resp>>

\* "Display results" and "Show corrected text"; the rest of the script
\* writes nothing to the results column.
DisplayResults ==
  /\ pc = "show"
  /\ display' = display \o SummaryItems(spelling_errors, grammar_errors, opts)
                        \o CorrectionItems(corrected_text, user_text)
  /\ pc' = "done"
  /\ UNCHANGED <<widgets, locals, calls, spell_resp, grammar_resp>>

Next ==
  \/ Interact
  \/ EditText
  \/ ToggleOption
  \/ ClickButton
  \/ NoCheck
  \/ InitResults
  \/ SpellSkip
  \/ SpellCheck
  \/ GrammarSkip
  \/ GrammarCheck
  \/ DisplayResults

Spec == Init /\ [][Next]_vars

\* ------------------------------------------------------------ properties
Has(kind) == \E i \in DOMAIN display : display[i].kind = kind

CallCount(name) == Cardinality({i \in DOMAIN calls : calls[i] = name})

\* The run has entered the results block, so the script variables are bound.
InCheck ==
  \/ pc \in {"spell", "grammar", "show"}
  \/ pc = "done" /\ CheckRequested(user_text, check_button)

CheckDone == pc = "done" /\ CheckRequested(user_text, check_button)

SummaryShown == Has("success") \/ Has("warning")

SpellRaised == spell_resp.at \in {"load", "unknown", "candidates"}

GrammarRaised == grammar_resp.at \in {"construct", "correct"}

NonBlank(text) == \E i \in DOMAIN text : text[i] \notin Whitespace

\* The kinds of the items of the error lists and of the correction panel.
ResultKinds ==
  {"success", "warning", "subheader_spelling", "spelling_word", "suggestions",
   "subheader_grammar", "grammar_original", "suggestion",
   "subheader_correction", "corrected_write", "corrected_area"}

\* C1: an exception of the spelling step is caught and shown as a
\* 'Spelling check error', the grammar step still runs when its toggle is
\* checked and the text is non-blank, and no exception of either step ends
\* the run before the result summary is displayed.
C1_ErrorsCaughtIndividually ==
  /\ (SpellRaised /\ pc \in {"grammar", "show", "done"}) => Has("error_spelling")
  /\ (SpellRaised /\ pc = "grammar" /\ check_grammar /\ NonBlank(user_text))
       => GrammarEnabled(opts, user_text)
  /\ (SpellRaised /\ pc = "done" /\ check_grammar /\ NonBlank(user_text))
       => grammar_resp.at # "skipped"
  /\ ((SpellRaised \/ GrammarRaised) /\ pc = "done") => SummaryShown

C1_Witness ==
  /\ pc = "done"
  /\ spell_resp.at = "candidates"
  /\ grammar_resp.at = "none"
  /\ Has("error_spelling")
  /\ Has("warning")

\* C2: without a click, or with an empty text, no library is called and the
\* results column stays empty; a run with a click and a non-empty text ends
\* with the statistics and a result summary displayed.
C2_AnalysisOnlyOnClick ==
  /\ (pc # "rerun" /\ ~(user_text # <<>> /\ check_button))
       => /\ display = <<>>
          /\ calls = <<>>
          /\ spell_resp = NoSpell
          /\ grammar_resp = NoGrammar
  /\ (pc = "done" /\ user_text # <<>> /\ check_button)
       => /\ Has("metric_words") /\ Has("metric_chars") /\ Has("metric_sentences")
          /\ SummaryShown

C2_Witness ==
  /\ pc = "done"
  /\ user_text # <<>>
  /\ ~check_button
  /\ display = <<>>

\* C3: in one run the unknown-word lookup and the correction are each called
\* at most once, no spelling call follows the correction and the correction
\* is called only once the spelling step is over, the statistics are on the
\* page before any library call, and the summary, the error lists and the
\* suggested correction are on the page only when both steps are over.
C3_SequentialNoRetries ==
  /\ CallCount("unknown") <= 1
  /\ CallCount("correct") <= 1
  /\ \A i \in DOMAIN calls : calls[i] = "correct" => i = Len(calls)
  /\ (grammar_resp.at # "skipped") => pc \in {"show", "done"}
  /\ (spell_resp.at # "skipped") => pc \in {"grammar", "show", "done"}
  /\ (pc \in {"spell", "grammar", "show"} \/ calls # <<>>)
       => /\ Len(display) >= 5
          /\ SubSeq(display, 1, 5) = StatsItems(user_text)
  /\ (\E i \in DOMAIN display : display[i].kind \in ResultKinds) => pc = "done"

C3_Witness ==
  /\ pc = "done"
  /\ calls = <<"unknown", "candidates", "candidates", "correct">>
  /\ spell_resp.at = "candidates"
  /\ Len(spelling_errors) = 1
  /\ grammar_resp.at = "correct"

\* The number of maximal runs of non-whitespace characters of s.
TokenCount(s) ==
  Cardinality({i \in 1..Len(s) :
                 /\ s[i] \notin Whitespace
                 /\ (i = 1 \/ s[i - 1] \in Whitespace)})

\* C4: the displayed word count is the number of whitespace-separated tokens
\* of the text and the displayed character count is the length of the text,
\* whatever the toggles are and whatever the libraries do.
C4_StatisticsOfText ==
  InCheck =>
    /\ word_count = TokenCount(user_text)
    /\ char_count = Len(user_text)
    /\ display[2] = Item("metric_words", TokenCount(user_text), <<>>)
    /\ display[3] = Item("metric_chars", Len(user_text), <<>>)

C4_Witness ==
  /\ pc = "done"
  /\ user_text = <<" ", " ", "a">>
  /\ check_button
  /\ display[2].num = 1
  /\ display[3].num = 3
  /\ GrammarRaised
  /\ ~show_suggestions

\* The results column of a whole run, from its inputs and the libraries'
\* answers alone.
RunOutput(text, o, button, sr, gr) ==
  IF ~(text # <<>> /\ button) THEN <<>>
  ELSE LET sp == o.check_spelling /\ NonBlank(text)
           gm == o.check_grammar /\ NonBlank(text)
           se == IF sp THEN SpellingErrors(sr) ELSE <<>>
           ge == IF gm THEN GrammarErrors(text, gr) ELSE <<>>
           ct == IF gm /\ gr.at = "none" THEN gr.text ELSE text
       IN StatsItems(text)
          \o (IF sp THEN SpellErrorItems(sr) ELSE <<>>)
          \o (IF gm THEN GrammarErrorItems(gr) ELSE <<>>)
          \o SummaryItems(se, ge, o)
          \o CorrectionItems(ct, text)

\* C5: when a check run starts, both error lists are empty and the corrected
\* text is the current input; what a finished run displays is a function of
\* its text, its toggles, the click and the libraries' answers in that run.
C5_RecomputedOnEachCheck ==
  /\ pc = "spell"
       => /\ spelling_errors = <<>>
          /\ grammar_errors = <<>>
          /\ corrected_text = user_text
  /\ pc = "done"
       => display = RunOutput(user_text, opts, check_button, spell_resp, grammar_resp)

C5_Witness ==
  /\ pc = "spell"
  /\ user_text = <<"a", " ", "b">>
  /\ ~check_spelling
  /\ ~highlight_errors
  /\ corrected_text = user_text

\* C6: a library is called only if its toggle is checked and the text has a
\* non-whitespace character; with Check Spelling unchecked the spelling list
\* stays empty, with Check Grammar unchecked the grammar list stays empty and
\* the corrected text stays the input (no 'Suggested Correction'); for a
\* whitespace-only text no library is called and 'No errors found' is shown.
C6_TogglesGateLibraries ==
  /\ (\E i \in DOMAIN calls : calls[i] \in {"unknown", "candidates"})
       => check_spelling /\ NonBlank(user_text)
  /\ (spell_resp.at # "skipped") => check_spelling /\ NonBlank(user_text)
  /\ (\E i \in DOMAIN calls : calls[i] = "correct")
       => check_grammar /\ NonBlank(user_text)
  /\ (grammar_resp.at # "skipped") => check_grammar /\ NonBlank(user_text)
  /\ (InCheck /\ ~check_spelling) => spelling_errors = <<>>
  /\ (InCheck /\ ~check_grammar)
       => /\ grammar_errors = <<>>
          /\ corrected_text = user_text
          /\ ~Has("subheader_correction")
  /\ (CheckDone /\ ~NonBlank(user_text))
       => /\ calls = <<>>
          /\ spell_resp = NoSpell
          /\ grammar_resp = NoGrammar
          /\ Has("success")

C6_Witness ==
  /\ pc = "done"
  /\ check_button
  /\ user_text = <<" ", " ">>
  /\ check_spelling
  /\ check_grammar
  /\ Has("success")

\* The items of the given kind, in display order.
ItemsOf(kind) == SelectSeq(display, LAMBDA it : it.kind = kind)

\* C7: when the grammar library raises, 'Grammar check error' is displayed,
\* the grammar list is empty, the corrected text is still the input and no
\* 'Suggested Correction' is shown, and the spelling errors collected in the
\* run are kept, displayed and counted.
C7_GrammarFailureKeepsSpelling ==
  (GrammarRaised /\ pc \in {"show", "done"}) =>
    /\ Has("error_grammar")
    /\ grammar_errors = <<>>
    /\ corrected_text = user_text
    /\ spelling_errors = SpellingErrors(spell_resp)
    /\ pc = "done" =>
         /\ ~Has("subheader_correction")
         /\ ~Has("corrected_area")
         /\ spelling_errors # <<>> =>
              /\ ItemsOf("warning") = <<Item("warning", Len(spelling_errors), <<>>)>>
              /\ ItemsOf("spelling_word")
                   = [k \in 1..Len(spelling_errors) |->
                        Item("spelling_word", 0, spelling_errors[k].word)]
         /\ spelling_errors = <<>> => Has("success")

C7_Witness ==
  /\ pc = "done"
  /\ grammar_resp.at = "correct"
  /\ check_button
  /\ user_text # <<>>
  /\ Len(spelling_errors) = 2
  /\ Has("error_grammar")
  /\ Has("warning")

\* The k-th smallest element of the set d of numbers.
Nth(d, k) == CHOOSE i \in d : Cardinality({j \in d : j < i}) = k - 1

\* C8: when the library answers, the corrected text is its answer; if the
\* text and the answer have equally many whitespace-separated tokens, the
\* grammar list holds, in position order, one entry per position whose
\* tokens differ case-insensitively, with the original token and the one
\* corrected token as suggestion; otherwise the list is empty.
C8_WordLevelDiff ==
  (grammar_resp.at = "none" /\ pc \in {"show", "done"}) =>
    LET o == Split(user_text)
        c == Split(grammar_resp.text)
        d == {i \in 1..Len(o) : i <= Len(c) /\ Lower(o[i]) # Lower(c[i])}
    IN /\ corrected_text = grammar_resp.text
       /\ Len(o) = Len(c) =>
            grammar_errors =
              [k \in 1..Cardinality(d) |->
                 [word |-> o[Nth(d, k)], type |-> "Grammar",
                  suggestions |-> <<c[Nth(d, k)]>>]]
       /\ Len(o) # Len(c) => grammar_errors = <<>>

C8_Witness ==
  /\ pc = "done"
  /\ user_text = <<"a", " ", "b">>
  /\ grammar_resp = [at |-> "none", text |-> <<"A", " ", "a">>]
  /\ grammar_errors =
       <<[word |-> <<"b">>, type |-> "Grammar", suggestions |-> << <<"a">> >>]>>

\* C9: 'No errors found' and the 'Suggested Correction' panel are never
\* shown in the same run: when the corrected text differs from the input,
\* at least one spelling or grammar error is reported.
C9_NoSuccessWithCorrection ==
  pc = "done" => ~(Has("success") /\ Has("subheader_correction"))

\* The toggles o with Highlight Errors flipped.
FlipHighlight(o) == [o EXCEPT !.highlight_errors = ~@]

\* The toggles o with Show Suggestions flipped.
FlipSuggestions(o) == [o EXCEPT !.show_suggestions = ~@]

\* l without the per-error suggestion lines.
WithoutSuggestionLines(l) ==
  SelectSeq(l, LAMBDA it : it.kind \notin {"suggestions", "suggestion"})

\* C10: a run with Highlight Errors flipped and everything else the same
\* calls the same libraries and displays the same; a run with Show
\* Suggestions flipped displays the same except for the per-error
\* suggestion lines, so the same error count and the same correction panel.
C10_HighlightHasNoEffect ==
  /\ SpellEnabled(opts, user_text) = SpellEnabled(FlipHighlight(opts), user_text)
  /\ GrammarEnabled(opts, user_text) = GrammarEnabled(FlipHighlight(opts), user_text)
  /\ SpellEnabled(opts, user_text) = SpellEnabled(FlipSuggestions(opts), user_text)
  /\ GrammarEnabled(opts, user_text) = GrammarEnabled(FlipSuggestions(opts), user_text)
  /\ pc = "done" =>
       /\ display = RunOutput(user_text, FlipHighlight(opts), check_button,
                              spell_resp, grammar_resp)
       /\ WithoutSuggestionLines(display)
            = WithoutSuggestionLines(
                RunOutput(user_text, FlipSuggestions(opts), check_button,
                          spell_resp, grammar_resp))

C10_Witness ==
  /\ pc = "done"
  /\ ~highlight_errors
  /\ ~show_suggestions
  /\ Has("spelling_word")
  /\ Has("grammar_original")
  /\ Has("subheader_correction")
====
